---- MODULE Spec2Model ----
(***************************************************************************)
(* Model of scripts/deserialize_ssz.py: the path decomposer, the fork      *)
(* resolver and the type-name deriver (parse_ssz_path,                     *)
(* derive_type_from_suite), the fork transition table                      *)
(* (load_previous_fork_mapping) and the decode dispatcher with its         *)
(* alternate-fork retry (get_ssz_type_class, deserialize_ssz_file); and of  *)
(* scripts/check_missing_yamls.py: the scan for fixtures without a         *)
(* companion (check_missing_yamls) and the report that main prints.        *)
(*                                                                         *)
(* Representation of Python strings.  A string is a sequence of atoms: an  *)
(* atom is a word of the vocabulary below, a decimal digit, or one of the  *)
(* separator characters "_", ".", "/", ":", ",", "#", " ".  No word of the *)
(* vocabulary contains a separator or another word as a proper substring,  *)
(* so string equality is sequence equality, str.split is a split of the    *)
(* atom sequence, and "p in s" is "p is a contiguous subsequence of s".    *)
(* str.lower and str.capitalize act per atom through LowerAtom / CapAtom.  *)
(* int() succeeds exactly on non-empty sequences of digit atoms.           *)
(*                                                                         *)
(* A path (pathlib.Path) is the sequence of its parts; only relative paths *)
(* are modelled, so str(path) is the parts joined by "/".                  *)
(***************************************************************************)
EXTENDS Integers, Sequences, FiniteSets, TLC

(***************************************************************************)
(* Bounds of the model.                                                    *)
(***************************************************************************)
\* slots drawn for light-client filenames are 0, 8, ..., 8 * MaxSlotUnits
MaxSlotUnits == 4
\* activation epochs drawn for config.yaml are 0 .. MaxEpoch
MaxEpoch == 1
\* block indices and fork_block values are 0 .. MaxBlockIndex
MaxBlockIndex == 1
\* the trees handed to check_missing_yamls hold at most MaxFiles files
MaxFiles == 4
\* the audit is invoked at most MaxRuns times on the same tree
MaxRuns == 2

(***************************************************************************)
(* Strings as atom sequences.                                              *)
(***************************************************************************)
Digits == <<"0", "1", "2", "3", "4", "5", "6", "7", "8", "9">>

IsDigit(a) == \E d \in 1..10 : Digits[d] = a

DigitVal(a) == (CHOOSE d \in 1..10 : Digits[d] = a) - 1

\* str.lower on one atom: the vocabulary's atoms with upper-case letters
LowerAtom(a) ==
    CASE a = "ALTAIR" -> "altair"
      [] a = "Attestation" -> "attestation"
      [] a = "AttesterSlashing" -> "attesterslashing"
      [] a = "BELLATRIX" -> "bellatrix"
      [] a = "BeaconBlock" -> "beaconblock"
      [] a = "BeaconBlockBody" -> "beaconblockbody"
      [] a = "BeaconState" -> "beaconstate"
      [] a = "BlobSidecar" -> "blobsidecar"
      [] a = "CAPELLA" -> "capella"
      [] a = "DENEB" -> "deneb"
      [] a = "DataColumnSidecar" -> "datacolumnsidecar"
      [] a = "Deltas" -> "deltas"
      [] a = "Deneb" -> "deneb"
      [] a = "Deposit" -> "deposit"
      [] a = "EIP7805" -> "eip7805"
      [] a = "ELECTRA" -> "electra"
      [] a = "EPOCH" -> "epoch"
      [] a = "ExecutionPayload" -> "executionpayload"
      [] a = "Experimental" -> "experimental"
      [] a = "FORK" -> "fork"
      [] a = "FULU" -> "fulu"
      [] a = "GLOAS" -> "gloas"
      [] a = "LightClientBootstrap" -> "lightclientbootstrap"
      [] a = "LightClientFinalityUpdate" -> "lightclientfinalityupdate"
      [] a = "LightClientOptimisticUpdate" -> "lightclientoptimisticupdate"
      [] a = "LightClientUpdate" -> "lightclientupdate"
      [] a = "Minimal" -> "minimal"
      [] a = "None" -> "none"
      [] a = "PHASE0" -> "phase0"
      [] a = "PowBlock" -> "powblock"
      [] a = "ProposerSlashing" -> "proposerslashing"
      [] a = "SignedBLSToExecutionChange" -> "signedblstoexecutionchange"
      [] a = "SignedBeaconBlock" -> "signedbeaconblock"
      [] a = "SignedExecutionPayloadEnvelope" -> "signedexecutionpayloadenvelope"
      [] a = "SignedVoluntaryExit" -> "signedvoluntaryexit"
      [] a = "SyncAggregate" -> "syncaggregate"
      [] OTHER -> a

\* str.capitalize on the first atom of a word: first character upper-cased,
\* the rest lower-cased
CapAtom(a) ==
    CASE a = "ALTAIR" -> "Altair"
      [] a = "AttesterSlashing" -> "Attesterslashing"
      [] a = "BELLATRIX" -> "Bellatrix"
      [] a = "BeaconBlock" -> "Beaconblock"
      [] a = "BeaconBlockBody" -> "Beaconblockbody"
      [] a = "BeaconState" -> "Beaconstate"
      [] a = "BlobSidecar" -> "Blobsidecar"
      [] a = "CAPELLA" -> "Capella"
      [] a = "DENEB" -> "Deneb"
      [] a = "DataColumnSidecar" -> "Datacolumnsidecar"
      [] a = "EIP7805" -> "Eip7805"
      [] a = "ELECTRA" -> "Electra"
      [] a = "EPOCH" -> "Epoch"
      [] a = "ExecutionPayload" -> "Executionpayload"
      [] a = "FORK" -> "Fork"
      [] a = "FULU" -> "Fulu"
      [] a = "GLOAS" -> "Gloas"
      [] a = "LightClientBootstrap" -> "Lightclientbootstrap"
      [] a = "LightClientFinalityUpdate" -> "Lightclientfinalityupdate"
      [] a = "LightClientOptimisticUpdate" -> "Lightclientoptimisticupdate"
      [] a = "LightClientUpdate" -> "Lightclientupdate"
      [] a = "PHASE0" -> "Phase0"
      [] a = "PowBlock" -> "Powblock"
      [] a = "ProposerSlashing" -> "Proposerslashing"
      [] a = "SignedBLSToExecutionChange" -> "Signedblstoexecutionchange"
      [] a = "SignedBeaconBlock" -> "Signedbeaconblock"
      [] a = "SignedExecutionPayloadEnvelope" -> "Signedexecutionpayloadenvelope"
      [] a = "SignedVoluntaryExit" -> "Signedvoluntaryexit"
      [] a = "SyncAggregate" -> "Syncaggregate"
      [] a = "aggregate" -> "Aggregate"
      [] a = "altair" -> "Altair"
      [] a = "anchor" -> "Anchor"
      [] a = "and" -> "And"
      [] a = "attestation" -> "Attestation"
      [] a = "attester" -> "Attester"
      [] a = "basic" -> "Basic"
      [] a = "bellatrix" -> "Bellatrix"
      [] a = "bid" -> "Bid"
      [] a = "blobs" -> "Blobs"
      [] a = "block" -> "Block"
      [] a = "blocks" -> "Blocks"
      [] a = "bls" -> "Bls"
      [] a = "body" -> "Body"
      [] a = "bootstrap" -> "Bootstrap"
      [] a = "capella" -> "Capella"
      [] a = "case" -> "Case"
      [] a = "change" -> "Change"
      [] a = "choice" -> "Choice"
      [] a = "client" -> "Client"
      [] a = "collection" -> "Collection"
      [] a = "column" -> "Column"
      [] a = "core" -> "Core"
      [] a = "data" -> "Data"
      [] a = "deltas" -> "Deltas"
      [] a = "deneb" -> "Deneb"
      [] a = "deposit" -> "Deposit"
      [] a = "deposits" -> "Deposits"
      [] a = "deserialize_ssz" -> "Deserialize_ssz"
      [] a = "eip7805" -> "Eip7805"
      [] a = "electra" -> "Electra"
      [] a = "envelope" -> "Envelope"
      [] a = "epoch" -> "Epoch"
      [] a = "execution" -> "Execution"
      [] a = "exit" -> "Exit"
      [] a = "finality" -> "Finality"
      [] a = "finalization" -> "Finalization"
      [] a = "fork" -> "Fork"
      [] a = "fulu" -> "Fulu"
      [] a = "general" -> "General"
      [] a = "genesis" -> "Genesis"
      [] a = "gloas" -> "Gloas"
      [] a = "header" -> "Header"
      [] a = "initial" -> "Initial"
      [] a = "justification" -> "Justification"
      [] a = "light" -> "Light"
      [] a = "mainnet" -> "Mainnet"
      [] a = "merkle" -> "Merkle"
      [] a = "minimal" -> "Minimal"
      [] a = "object" -> "Object"
      [] a = "operations" -> "Operations"
      [] a = "optimistic" -> "Optimistic"
      [] a = "payload" -> "Payload"
      [] a = "phase0" -> "Phase0"
      [] a = "post" -> "Post"
      [] a = "pow" -> "Pow"
      [] a = "pre" -> "Pre"
      [] a = "processing" -> "Processing"
      [] a = "proof" -> "Proof"
      [] a = "proposer" -> "Proposer"
      [] a = "pyspec" -> "Pyspec"
      [] a = "random" -> "Random"
      [] a = "ranking" -> "Ranking"
      [] a = "reorg" -> "Reorg"
      [] a = "rewards" -> "Rewards"
      [] a = "serialized" -> "Serialized"
      [] a = "signed" -> "Signed"
      [] a = "single" -> "Single"
      [] a = "slashing" -> "Slashing"
      [] a = "snappy" -> "Snappy"
      [] a = "source" -> "Source"
      [] a = "ssz" -> "Ssz"
      [] a = "state" -> "State"
      [] a = "static" -> "Static"
      [] a = "steps" -> "Steps"
      [] a = "sync" -> "Sync"
      [] a = "tests" -> "Tests"
      [] a = "to" -> "To"
      [] a = "transition" -> "Transition"
      [] a = "update" -> "Update"
      [] a = "updates" -> "Updates"
      [] a = "v1" -> "V1"
      [] a = "voluntary" -> "Voluntary"
      [] a = "whisk" -> "Whisk"
      [] a = "withdrawals" -> "Withdrawals"
      [] a = "x" -> "X"
      [] a = "yaml" -> "Yaml"
      [] OTHER -> a

Lower(s) == [i \in 1..Len(s) |-> LowerAtom(s[i])]

Capitalize(w) == [i \in 1..Len(w) |-> IF i = 1 THEN CapAtom(w[1]) ELSE LowerAtom(w[i])]

StartsWith(s, p) == Len(p) <= Len(s) /\ SubSeq(s, 1, Len(p)) = p

EndsWith(s, p) == Len(p) <= Len(s) /\ SubSeq(s, Len(s) - Len(p) + 1, Len(s)) = p

\* Python's "p in s" for strings
Contains(s, p) == \E i \in 0..(Len(s) - Len(p)) : SubSeq(s, i + 1, i + Len(p)) = p

\* str.find: the first position at which p occurs in s (Contains(s, p) assumed)
FindFirst(s, p) == CHOOSE i \in 0..(Len(s) - Len(p)) :
                      /\ SubSeq(s, i + 1, i + Len(p)) = p
                      /\ \A j \in 0..(i - 1) : SubSeq(s, j + 1, j + Len(p)) # p

RECURSIVE SplitAcc(_, _, _, _)
SplitAcc(s, sep, i, cur) ==
    IF i > Len(s) THEN <<cur>>
    ELSE IF s[i] = sep THEN <<cur>> \o SplitAcc(s, sep, i + 1, <<>>)
    ELSE SplitAcc(s, sep, i + 1, Append(cur, s[i]))

\* str.split(sep) for a one-character separator: always at least one piece
Split(s, sep) == SplitAcc(s, sep, 1, <<>>)

RECURSIVE Concat(_)
\* ''.join(pieces)
Concat(pieces) == IF pieces = <<>> THEN <<>> ELSE Head(pieces) \o Concat(Tail(pieces))

RECURSIVE JoinWith(_, _)
\* sep.join(pieces)
JoinWith(pieces, sep) ==
    IF pieces = <<>> THEN <<>>
    ELSE IF Len(pieces) = 1 THEN pieces[1]
    ELSE pieces[1] \o <<sep>> \o JoinWith(Tail(pieces), sep)

\* str(path) of a relative path
PathStr(parts) == JoinWith(parts, "/")

\* int(s) raises ValueError unless s is a decimal literal
IsInt(s) == s # <<>> /\ \A i \in 1..Len(s) : IsDigit(s[i])

RECURSIVE IntOf(_)
IntOf(s) == IF s = <<>> THEN 0 ELSE 10 * IntOf(SubSeq(s, 1, Len(s) - 1)) + DigitVal(s[Len(s)])

RECURSIVE Strip(_)
\* str.strip() of blanks
Strip(s) ==
    IF s # <<>> /\ s[1] = " " THEN Strip(Tail(s))
    ELSE IF s # <<>> /\ s[Len(s)] = " " THEN Strip(SubSeq(s, 1, Len(s) - 1))
    ELSE s

RECURSIVE RStripComma(_)
\* str.rstrip(',')
RStripComma(s) ==
    IF s # <<>> /\ s[Len(s)] = "," THEN RStripComma(SubSeq(s, 1, Len(s) - 1)) ELSE s

(***************************************************************************)
(* Dictionaries: a set of <<key, value>> pairs with at most one pair per   *)
(* key.                                                                    *)
(***************************************************************************)
HasKey(d, k) == \E p \in d : p[1] = k

Get(d, k) == (CHOOSE p \in d : p[1] = k)[2]

Put(d, k, v) == {p \in d : p[1] # k} \cup {<<k, v>>}

(***************************************************************************)
(* load_previous_fork_mapping: the fork transition table parsed from the   *)
(* constants file.  The file is modelled by whether it exists, whether the *)
(* regular expression finds the PREVIOUS_FORK_OF dictionary, and the lines *)
(* of the dictionary's body.                                               *)
(***************************************************************************)
RECURSIVE ParseForkLines(_, _)
ParseForkLines(lines, acc) ==
    IF lines = <<>> THEN acc
    ELSE LET line == Strip(Head(lines))
             parts == Split(line, ":")
             key == Strip(parts[1])
             value == RStripComma(Strip(parts[2]))
         IN  IF /\ Contains(line, <<":">>)
                /\ ~StartsWith(line, <<"#">>)
                /\ Len(parts) = 2
                /\ value # <<>>
                /\ value # <<"None">>
             THEN ParseForkLines(Tail(lines), Put(acc, Lower(key), Lower(value)))
             ELSE ParseForkLines(Tail(lines), acc)

load_previous_fork_mapping(file) ==
    IF ~file.exists THEN {}
    ELSE IF ~file.dict_found THEN {}
    ELSE ParseForkLines(file.lines, {})

(***************************************************************************)
(* Sidecar files (meta.yaml, config.yaml) as yaml.safe_load returns them.  *)
(* A value is missing (no such key), null, a string or an integer.         *)
(***************************************************************************)
Missing == [t |-> "missing", s |-> <<>>, i |-> 0]

Null == [t |-> "null", s |-> <<>>, i |-> 0]

StrVal(str) == [t |-> "str", s |-> str, i |-> 0]

IntVal(n) == [t |-> "int", s |-> <<>>, i |-> n]

\* the value of a sidecar that the call did not open
Unread == [read |-> FALSE, exists |-> FALSE, doc |-> "none",
           post_fork |-> Missing, fork_block |-> Missing,
           preset_base |-> Missing, epochs |-> {}]

(***************************************************************************)
(* The outcome of a step of parse_ssz_path: the exception it raises        *)
(* ("none" when it returns) and the value of actual_fork after it.         *)
(***************************************************************************)
Ok(f) == [exc |-> "none", fork |-> f]

Raise(kind) == [exc |-> kind, fork |-> <<>>]

SSZ_SNAPPY == <<".", "ssz", "_", "snappy">>

PRE == <<"pre">> \o SSZ_SNAPPY

INITIAL_STATE == <<"initial", "_", "state">> \o SSZ_SNAPPY

\* the index (from 1) of the first part equal to 'tests', 0 when there is none
TestsIdx(parts) ==
    IF \E i \in 1..Len(parts) : parts[i] = <<"tests">>
    THEN CHOOSE i \in 1..Len(parts) :
            parts[i] = <<"tests">> /\ \A j \in 1..(i - 1) : parts[j] # <<"tests">>
    ELSE 0

\* a decomposer that takes the start of the path for the marker when 'tests' is absent
PathTooShort_NoMarkerCheck(parts) == Len(parts) < TestsIdx(parts) + 4

\* the two checks that raise ValueError before any segment is read
PathTooShort(parts) == TestsIdx(parts) = 0 \/ Len(parts) < TestsIdx(parts) + 4

Preset(parts) == parts[TestsIdx(parts) + 1]

DirFork(parts) == parts[TestsIdx(parts) + 2]

TestType(parts) == parts[TestsIdx(parts) + 3]

TestSuite(parts) == parts[TestsIdx(parts) + 4]

\* file_path.name
FileName(parts) == parts[Len(parts)]

\* meta.get('post_fork', fork).lower()
PostFork(meta, fork) ==
    CASE meta.post_fork.t = "missing" -> Ok(Lower(fork))
      [] meta.post_fork.t = "str" -> Ok(Lower(meta.post_fork.s))
      [] OTHER -> Raise("AttributeError")

\* a fork rule that never consults the transition table
ForkRule_NoPredecessor(parts, table) == DirFork(parts)

\* fork tests with pre.ssz_snappy use the previous fork
ForkRule(parts, table) ==
    LET fork == DirFork(parts)
    IN  IF TestType(parts) = <<"fork">> /\ FileName(parts) = PRE /\ HasKey(table, fork)
        THEN Get(table, fork)
        ELSE fork

ReadsMetaForPre(parts) == TestType(parts) = <<"transition">> /\ FileName(parts) = PRE

\* transition tests with pre.ssz_snappy use the predecessor of meta.yaml's post_fork
TransitionPreRule(parts, table, meta, actual_fork) ==
    IF ~ReadsMetaForPre(parts) THEN Ok(actual_fork)
    ELSE IF ~meta.exists THEN Ok(actual_fork)
    ELSE IF meta.doc = "invalid" THEN Raise("YAMLError")
    ELSE IF meta.doc = "none" THEN Raise("AttributeError")
    ELSE LET pf == PostFork(meta, DirFork(parts))
         IN  IF pf.exc # "none" THEN pf
             ELSE IF HasKey(table, pf.fork) THEN Ok(Get(table, pf.fork))
             ELSE Ok(actual_fork)

\* filename.split('_')[1].split('.')[0]
BlockIndexText(filename) == Split(Split(filename, "_")[2], ".")[1]

ReadsMetaForBlocks(parts) ==
    /\ TestType(parts) = <<"transition">>
    /\ StartsWith(FileName(parts), <<"blocks", "_">>)
    /\ IsInt(BlockIndexText(FileName(parts)))

\* a blocks rule whose block at fork_block is already of the post fork
TransitionBlocksRule_Strict(parts, table, meta, actual_fork) ==
    IF ~ReadsMetaForBlocks(parts) THEN Ok(actual_fork)
    ELSE IF ~meta.exists THEN Ok(actual_fork)
    ELSE IF meta.doc = "invalid" THEN Raise("YAMLError")
    ELSE IF meta.doc = "none" THEN Raise("AttributeError")
    ELSE LET block_index == IntOf(BlockIndexText(FileName(parts)))
             pf == PostFork(meta, DirFork(parts))
             fork_block == meta.fork_block
         IN  IF pf.exc # "none" THEN pf
             ELSE IF fork_block.t \in {"missing", "null"} THEN Ok(actual_fork)
             ELSE IF fork_block.t # "int" THEN Raise("TypeError")
             ELSE IF block_index < fork_block.i
                  THEN IF HasKey(table, pf.fork) THEN Ok(Get(table, pf.fork))
                       ELSE Ok(actual_fork)
                  ELSE Ok(pf.fork)

\* transition tests with blocks_<i>.ssz_snappy: meta.yaml's fork_block decides
TransitionBlocksRule(parts, table, meta, actual_fork) ==
    IF ~ReadsMetaForBlocks(parts) THEN Ok(actual_fork)
    ELSE IF ~meta.exists THEN Ok(actual_fork)
    ELSE IF meta.doc = "invalid" THEN Raise("YAMLError")
    ELSE IF meta.doc = "none" THEN Raise("AttributeError")
    ELSE LET block_index == IntOf(BlockIndexText(FileName(parts)))
             pf == PostFork(meta, DirFork(parts))
             fork_block == meta.fork_block
         IN  IF pf.exc # "none" THEN pf
             ELSE IF fork_block.t \in {"missing", "null"} THEN Ok(actual_fork)
             ELSE IF fork_block.t # "int" THEN Raise("TypeError")
             ELSE IF block_index <= fork_block.i
                  THEN IF HasKey(table, pf.fork) THEN Ok(Get(table, pf.fork))
                       ELSE Ok(actual_fork)
                  ELSE Ok(pf.fork)

ReadsMeta(parts) ==
    ~PathTooShort(parts) /\ (ReadsMetaForPre(parts) \/ ReadsMetaForBlocks(parts))

(***************************************************************************)
(* The light-client rules of parse_ssz_path.                               *)
(***************************************************************************)
\* the known fork names, oldest first (the list written twice in the function)
ALL_FORKS == << <<"phase0">>, <<"altair">>, <<"bellatrix">>, <<"capella">>, <<"deneb">>,
                <<"electra">>, <<"eip7805">>, <<"fulu">>, <<"gloas">> >>

\* str.upper on one atom: the fork names
UpperAtom(a) ==
    CASE a = "phase0" -> "PHASE0"
      [] a = "altair" -> "ALTAIR"
      [] a = "bellatrix" -> "BELLATRIX"
      [] a = "capella" -> "CAPELLA"
      [] a = "deneb" -> "DENEB"
      [] a = "electra" -> "ELECTRA"
      [] a = "eip7805" -> "EIP7805"
      [] a = "fulu" -> "FULU"
      [] a = "gloas" -> "GLOAS"
      [] OTHER -> a

Upper(s) == [i \in 1..Len(s) |-> UpperAtom(s[i])]

\* f"{fork_name.upper()}_FORK_EPOCH"
ForkEpochKey(fork_name) == Upper(fork_name) \o <<"_", "FORK", "_", "EPOCH">>

\* parts[tests_idx + 6] if len(parts) > tests_idx + 6 else ''
TestCase(parts) ==
    IF Len(parts) >= TestsIdx(parts) + 6 THEN parts[TestsIdx(parts) + 6] ELSE <<>>

RECURSIVE ForkNamesFrom(_, _)
ForkNamesFrom(test_case, i) ==
    IF i > Len(ALL_FORKS) THEN <<>>
    ELSE (IF Contains(Lower(test_case), ALL_FORKS[i]) THEN <<ALL_FORKS[i]>> ELSE <<>>)
         \o ForkNamesFrom(test_case, i + 1)

\* fork_names without the special case of initial_state.ssz_snappy
ForkNames_NoSpecialCase(parts) == ForkNamesFrom(TestCase(parts), 1)

\* fork_names: the known names found in the test case, in the order of ALL_FORKS;
\* empty for initial_state.ssz_snappy
ForkNames(parts) ==
    IF FileName(parts) # INITIAL_STATE THEN ForkNamesFrom(TestCase(parts), 1) ELSE <<>>

SlotPrefixes == { <<"update", "_">>, <<"optimistic", "_", "update", "_">>,
                  <<"finality", "_", "update", "_">>, <<"bootstrap", "_">>,
                  <<"block", "_">> }

HasSlotPrefix(filename) == \E p \in SlotPrefixes : StartsWith(filename, p)

RECURSIVE FirstInt(_)
\* the first piece of filename.split('_') that int() accepts: <<n>>, or <<>> for None
FirstInt(pieces) ==
    IF pieces = <<>> THEN <<>>
    ELSE IF IsInt(Head(pieces)) THEN <<IntOf(Head(pieces))>>
    ELSE FirstInt(Tail(pieces))

EpochOrSlot(filename) == FirstInt(Split(filename, "_"))

HasSlotNumber(parts) ==
    HasSlotPrefix(FileName(parts)) /\ EpochOrSlot(FileName(parts)) # <<>>

\* 8 if config.get('PRESET_BASE', 'mainnet').lower() == 'minimal' else 32
SlotsPerEpoch(config) ==
    CASE config.preset_base.t = "missing" -> 32
      [] config.preset_base.t = "str" ->
            IF Lower(config.preset_base.s) = <<"minimal">> THEN 8 ELSE 32
      [] OTHER -> 0

\* all_forks.index(fork), 0 when fork is not in the list (indices from 1 here)
CurrentForkIdx(fork) ==
    IF \E i \in 1..Len(ALL_FORKS) : ALL_FORKS[i] = fork
    THEN CHOOSE i \in 1..Len(ALL_FORKS) : ALL_FORKS[i] = fork
    ELSE 1

RECURSIVE SelectFork_Strict(_, _, _, _)
\* a loop that advances only when the epoch is strictly past the activation epoch
SelectFork_Strict(config, epoch, i, selected) ==
    IF i > Len(ALL_FORKS) THEN Ok(selected)
    ELSE LET key == ForkEpochKey(ALL_FORKS[i])
         IN  IF ~HasKey(config.epochs, key) THEN SelectFork_Strict(config, epoch, i + 1, selected)
             ELSE IF Get(config.epochs, key).t # "int" THEN Raise("TypeError")
             ELSE IF epoch > Get(config.epochs, key).i
                  THEN SelectFork_Strict(config, epoch, i + 1, ALL_FORKS[i])
                  ELSE Ok(selected)

RECURSIVE SelectFork(_, _, _, _)
\* the loop over all_forks[i:] : advance while the fork's epoch key is absent or reached,
\* stop at the first key whose epoch has not been reached
SelectFork(config, epoch, i, selected) ==
    IF i > Len(ALL_FORKS) THEN Ok(selected)
    ELSE LET key == ForkEpochKey(ALL_FORKS[i])
         IN  IF ~HasKey(config.epochs, key) THEN SelectFork(config, epoch, i + 1, selected)
             ELSE IF Get(config.epochs, key).t # "int" THEN Raise("TypeError")
             ELSE IF epoch >= Get(config.epochs, key).i
                  THEN SelectFork(config, epoch, i + 1, ALL_FORKS[i])
                  ELSE Ok(selected)

ReadsConfig(parts) ==
    ~PathTooShort(parts) /\ TestType(parts) = <<"light", "_", "client">> /\ HasSlotNumber(parts)

\* the slot-boundary rule
LightClientSlotRule(parts, config, actual_fork) ==
    IF ~ReadsConfig(parts) THEN Ok(actual_fork)
    ELSE IF ~config.exists THEN Ok(actual_fork)
    ELSE IF config.doc = "invalid" THEN Raise("YAMLError")
    ELSE IF config.doc = "none" THEN Raise("AttributeError")
    ELSE IF config.preset_base.t \notin {"missing", "str"} THEN Raise("AttributeError")
    ELSE LET fork == DirFork(parts)
             epoch == EpochOrSlot(FileName(parts))[1] \div SlotsPerEpoch(config)
             sel == SelectFork(config, epoch, CurrentForkIdx(fork), fork)
         IN  IF sel.exc # "none" THEN sel
             ELSE IF sel.fork # fork THEN sel
             ELSE Ok(actual_fork)

\* a fork-name rule that takes the first (oldest) of fork_names
LightClientNameRule_First(parts, actual_fork) ==
    LET fork_names == ForkNames(parts)
    IN  IF /\ TestType(parts) = <<"light", "_", "client">>
           /\ ~HasSlotNumber(parts)
           /\ Len(fork_names) >= 1
           /\ TestSuite(parts) # <<"sync">>
           /\ fork_names[1] # DirFork(parts)
        THEN fork_names[1]
        ELSE actual_fork

\* the fork-name rule: without a slot number, outside the sync suite, the last of
\* fork_names
LightClientNameRule(parts, actual_fork) ==
    LET fork_names == ForkNames(parts)
    IN  IF /\ TestType(parts) = <<"light", "_", "client">>
           /\ ~HasSlotNumber(parts)
           /\ Len(fork_names) >= 1
           /\ TestSuite(parts) # <<"sync">>
           /\ fork_names[Len(fork_names)] # DirFork(parts)
        THEN fork_names[Len(fork_names)]
        ELSE actual_fork

(***************************************************************************)
(* derive_type_from_suite: the rules in the order of the function, first   *)
(* match wins.                                                             *)
(***************************************************************************)
File(stem) == stem \o SSZ_SNAPPY

\* the state files without the light-client initial snapshot
StateFiles_NoInitial == { PRE, File(<<"post">>), File(<<"pre", "_", "epoch">>),
                          File(<<"post", "_", "epoch">>) }

StateFiles == { PRE, File(<<"post">>), File(<<"pre", "_", "epoch">>),
                File(<<"post", "_", "epoch">>), INITIAL_STATE }

\* type_map of the operations rule
OperationsTypeMap ==
    { << <<"attestation">>, <<"Attestation">> >>,
      << <<"attester", "_", "slashing">>, <<"AttesterSlashing">> >>,
      << <<"block", "_", "header">>, <<"BeaconBlock">> >>,
      << <<"deposit">>, <<"Deposit">> >>,
      << <<"proposer", "_", "slashing">>, <<"ProposerSlashing">> >>,
      << <<"voluntary", "_", "exit">>, <<"SignedVoluntaryExit">> >>,
      << <<"sync", "_", "aggregate">>, <<"SyncAggregate">> >>,
      << <<"execution", "_", "payload">>, <<"ExecutionPayload">> >>,
      << <<"withdrawals">>, <<"ExecutionPayload">> >>,
      << <<"bls", "_", "to", "_", "execution", "_", "change">>,
         <<"SignedBLSToExecutionChange">> >> }

RECURSIVE CapitalizeAll(_)
CapitalizeAll(words) ==
    IF words = <<>> THEN <<>> ELSE <<Capitalize(Head(words))>> \o CapitalizeAll(Tail(words))

\* ''.join(word.capitalize() for word in test_suite.split('_'))
PascalCase(test_suite) == Concat(CapitalizeAll(Split(test_suite, "_")))

LIGHT_CLIENT == <<"light", "_", "client">>

derive_type_from_suite(test_type, test_suite, filename) ==
    IF filename \in StateFiles
       THEN <<"BeaconState">>
    ELSE IF filename = File(<<"body">>)
            THEN <<"BeaconBlockBody">>
    ELSE IF filename = File(<<"signed", "_", "envelope">>)
            THEN <<"SignedExecutionPayloadEnvelope">>
    ELSE IF /\ test_type \in { <<"fork", "_", "choice">>, <<"sync">> }
            /\ filename = File(<<"anchor", "_", "state">>)
            THEN <<"BeaconState">>
    ELSE IF /\ test_type \in { <<"fork", "_", "choice">>, <<"sync">> }
            /\ filename = File(<<"anchor", "_", "block">>)
            THEN <<"BeaconBlock">>
    ELSE IF /\ test_type \in { <<"fork", "_", "choice">>, <<"sync">> }
            /\ StartsWith(filename, <<"block", "_">>)
            THEN <<"SignedBeaconBlock">>
    ELSE IF /\ test_type \in { <<"fork", "_", "choice">>, <<"sync">> }
            /\ StartsWith(filename, <<"attestation", "_">>)
            THEN <<"Attestation">>
    ELSE IF /\ test_type \in { <<"fork", "_", "choice">>, <<"sync">> }
            /\ StartsWith(filename, <<"attester", "_", "slashing", "_">>)
            THEN <<"AttesterSlashing">>
    ELSE IF /\ test_type \in { <<"fork", "_", "choice">>, <<"sync">> }
            /\ StartsWith(filename, <<"pow", "_", "block", "_">>)
            THEN <<"PowBlock">>
    ELSE IF /\ test_type \in { <<"fork", "_", "choice">>, <<"sync">> }
            /\ StartsWith(filename, <<"column", "_">>)
            THEN <<"DataColumnSidecar">>
    ELSE IF /\ test_type \in { <<"fork", "_", "choice">>, <<"sync">> }
            /\ StartsWith(filename, <<"blobs", "_">>)
            THEN <<"BlobSidecar">>
    ELSE IF /\ test_type = LIGHT_CLIENT
            /\ test_suite = <<"data", "_", "collection">>
            /\ StartsWith(filename, <<"block", "_">>)
            THEN <<"SignedBeaconBlock">>
    ELSE IF /\ test_type = LIGHT_CLIENT
            /\ test_suite = <<"update", "_", "ranking">>
            /\ \/ StartsWith(filename, <<"update", "_">>)
               \/ StartsWith(filename, <<"updates", "_">>)
            THEN <<"LightClientUpdate">>
    ELSE IF /\ test_type = LIGHT_CLIENT
            /\ test_suite = <<"sync">>
            /\ StartsWith(filename, <<"update", "_">>)
            THEN <<"LightClientUpdate">>
    ELSE IF /\ test_type = LIGHT_CLIENT
            /\ test_suite = <<"sync">>
            /\ StartsWith(filename, <<"optimistic", "_", "update", "_">>)
            THEN <<"LightClientOptimisticUpdate">>
    ELSE IF /\ test_type = LIGHT_CLIENT
            /\ test_suite = <<"sync">>
            /\ StartsWith(filename, <<"finality", "_", "update", "_">>)
            THEN <<"LightClientFinalityUpdate">>
    ELSE IF /\ test_type = LIGHT_CLIENT
            /\ test_suite = <<"sync">>
            /\ \/ StartsWith(filename, <<"bootstrap", "_">>)
               \/ filename = File(<<"bootstrap">>)
            THEN <<"LightClientBootstrap">>
    ELSE IF /\ test_type = <<"rewards">>
            /\ EndsWith(filename, <<"_", "deltas">> \o SSZ_SNAPPY)
            THEN <<"Deltas">>
    ELSE IF /\ test_type = <<"genesis">>
            /\ StartsWith(filename, <<"deposits", "_">>)
            THEN <<"Deposit">>
    ELSE IF /\ test_type = <<"genesis">>
            /\ filename \in { File(<<"state">>), File(<<"genesis">>) }
            THEN <<"BeaconState">>
    ELSE IF /\ test_type = LIGHT_CLIENT
            /\ test_suite = <<"data", "_", "collection">>
            /\ StartsWith(filename, <<"update", "_">>)
            THEN <<"LightClientUpdate">>
    ELSE IF /\ test_type = LIGHT_CLIENT
            /\ test_suite = <<"data", "_", "collection">>
            /\ StartsWith(filename, <<"optimistic", "_", "update", "_">>)
            THEN <<"LightClientOptimisticUpdate">>
    ELSE IF /\ test_type = LIGHT_CLIENT
            /\ test_suite = <<"data", "_", "collection">>
            /\ StartsWith(filename, <<"finality", "_", "update", "_">>)
            THEN <<"LightClientFinalityUpdate">>
    ELSE IF /\ test_type = LIGHT_CLIENT
            /\ test_suite = <<"data", "_", "collection">>
            /\ StartsWith(filename, <<"bootstrap", "_">>)
            THEN <<"LightClientBootstrap">>
    ELSE IF /\ test_type = <<"operations">>
            /\ test_suite \in { <<"block", "_", "header">>,
                                <<"execution", "_", "payload", "_", "bid">> }
            /\ filename = File(<<"block">>)
            THEN <<"BeaconBlock">>
    ELSE IF \/ StartsWith(filename, <<"blocks", "_">>)
            \/ filename = File(<<"block">>)
            THEN <<"SignedBeaconBlock">>
    ELSE IF /\ test_type = <<"operations">>
            /\ HasKey(OperationsTypeMap, test_suite)
            THEN Get(OperationsTypeMap, test_suite)
    ELSE PascalCase(test_suite)

(***************************************************************************)
(* parse_ssz_path: (preset, actual_fork, type_name, filename), or the      *)
(* exception that leaves the function.  meta and config are the contents   *)
(* of the sidecars beside the file, as the function would read them.       *)
(***************************************************************************)
ParseError(kind) ==
    [exc |-> kind, preset |-> <<>>, fork |-> <<>>, type_name |-> <<>>, filename |-> <<>>]

OBJECT == <<"object">> \o SSZ_SNAPPY

\* the last step: "Determine type name based on test type"
TypeName(parts) ==
    IF TestType(parts) = <<"ssz", "_", "static">> THEN Ok(TestSuite(parts))
    ELSE IF /\ TestType(parts) \in { LIGHT_CLIENT, <<"merkle", "_", "proof">> }
            /\ TestSuite(parts) = <<"single", "_", "merkle", "_", "proof">>
            /\ FileName(parts) = OBJECT
         THEN IF Len(parts) >= TestsIdx(parts) + 5
              THEN Ok(parts[TestsIdx(parts) + 5])
              ELSE Raise("ValueError")
    ELSE Ok(derive_type_from_suite(TestType(parts), TestSuite(parts), FileName(parts)))

\* actual_fork after the fork rules, in the order of the function
ActualFork(parts, table, meta, config) ==
    LET r1 == TransitionPreRule(parts, table, meta, ForkRule(parts, table))
    IN  IF r1.exc # "none" THEN r1
        ELSE LET r2 == TransitionBlocksRule(parts, table, meta, r1.fork)
             IN  IF r2.exc # "none" THEN r2
                 ELSE LET r3 == LightClientSlotRule(parts, config, r2.fork)
                      IN  IF r3.exc # "none" THEN r3
                          ELSE Ok(LightClientNameRule(parts, r3.fork))

parse_ssz_path(parts, table, meta, config) ==
    IF PathTooShort(parts) THEN ParseError("ValueError")
    ELSE LET af == ActualFork(parts, table, meta, config)
             tn == TypeName(parts)
         IN  IF af.exc # "none" THEN ParseError(af.exc)
             ELSE IF tn.exc # "none" THEN ParseError(tn.exc)
             ELSE [exc |-> "none", preset |-> Preset(parts), fork |-> af.fork,
                   type_name |-> tn.fork, filename |-> FileName(parts)]

(***************************************************************************)
(* get_ssz_type_class.  lookup is the answer of the type registry          *)
(* (importlib and hasattr on eth2spec.<fork>.<preset>): "ok", "ImportError"*)
(* (no such module) or "AttributeError" (the module lacks the type).       *)
(***************************************************************************)
NoClass == [module |-> <<>>, name |-> <<>>]

\* the module the function imports: 'general' uses the mainnet types
ModulePath(preset, fork) ==
    <<fork, IF preset = <<"general">> THEN <<"mainnet">> ELSE preset>>

get_ssz_type_class(preset, fork, type_name, lookup) ==
    IF type_name = <<"Deltas">>
    THEN [exc |-> "none", cls |-> [module |-> <<"deserialize_ssz">>, name |-> <<"Deltas">>]]
    ELSE IF lookup # "ok" THEN [exc |-> lookup, cls |-> NoClass]
    ELSE [exc |-> "none", cls |-> [module |-> ModulePath(preset, fork), name |-> type_name]]

\* whether the function consults the registry at all
NeedsLookup(type_name) == type_name # <<"Deltas">>

(***************************************************************************)
(* deserialize_ssz_file: the fallback candidates.                          *)
(***************************************************************************)
\* the candidates in the order of activation instead of the order of the list
FALLBACK_FORKS_Chronological ==
    << <<"altair">>, <<"bellatrix">>, <<"capella">>, <<"deneb">>, <<"electra">> >>

\* the list the fallback loop scans, in its order
FALLBACK_FORKS == << <<"deneb">>, <<"electra">>, <<"capella">>, <<"bellatrix">>, <<"altair">> >>

\* 'light_client' in str(input_path) and '/sync/' in str(input_path)
IsLightClientSync(parts) ==
    /\ Contains(PathStr(parts), LIGHT_CLIENT)
    /\ Contains(PathStr(parts), <<"/", "sync", "/">>)

RECURSIVE AlternativesFrom(_, _, _)
AlternativesFrom(path_lower, fork, i) ==
    IF i > Len(FALLBACK_FORKS) THEN <<>>
    ELSE (IF Contains(path_lower, FALLBACK_FORKS[i]) /\ FALLBACK_FORKS[i] # fork
          THEN <<FALLBACK_FORKS[i]>> ELSE <<>>)
         \o AlternativesFrom(path_lower, fork, i + 1)

\* alternative_forks
AlternativeForks(parts, fork) ==
    IF IsLightClientSync(parts) THEN AlternativesFrom(Lower(PathStr(parts)), fork, 1) ELSE <<>>

(***************************************************************************)
(* Inputs: the constants file, the sidecar files and the fixture paths the *)
(* model draws from.                                                       *)
(***************************************************************************)
RECURSIVE DigitsOf(_)
\* str(n) for n >= 0
DigitsOf(n) == IF n < 10 THEN <<Digits[n + 1]>> ELSE DigitsOf(n \div 10) \o <<Digits[(n % 10) + 1]>>

Entry(key, value) == <<" ", " ", key, ":", " ", value, ",">>

\* the body of the PREVIOUS_FORK_OF dictionary of eth2spec/test/helpers/constants.py
StandardLines ==
    << <<>>,
       <<" ", " ", "#", " ", "post", ":", " ", "pre">>,
       Entry("PHASE0", "None"), Entry("ALTAIR", "PHASE0"), Entry("BELLATRIX", "ALTAIR"),
       Entry("CAPELLA", "BELLATRIX"), Entry("DENEB", "CAPELLA"), Entry("ELECTRA", "DENEB"),
       Entry("FULU", "ELECTRA"), Entry("GLOAS", "FULU"),
       <<" ", " ", "#", " ", "Experimental">>,
       Entry("EIP7805", "FULU"),
       <<>> >>

ConstantsFiles ==
    { [exists |-> FALSE, dict_found |-> FALSE, lines |-> <<>>],
      [exists |-> TRUE, dict_found |-> FALSE, lines |-> <<>>],
      [exists |-> TRUE, dict_found |-> TRUE, lines |-> SubSeq(StandardLines, 1, 4)],
      [exists |-> TRUE, dict_found |-> TRUE, lines |-> StandardLines] }

Tables == { load_previous_fork_mapping(f) : f \in ConstantsFiles }

StandardTable ==
    load_previous_fork_mapping([exists |-> TRUE, dict_found |-> TRUE, lines |-> StandardLines])

MetaFile(exists, doc, post_fork, fork_block) ==
    [read |-> TRUE, exists |-> exists, doc |-> doc, post_fork |-> post_fork,
     fork_block |-> fork_block, preset_base |-> Missing, epochs |-> {}]

\* meta.yaml: absent, empty, not YAML, or a mapping
MetaFiles ==
    { MetaFile(FALSE, "none", Missing, Missing),
      MetaFile(TRUE, "none", Missing, Missing),
      MetaFile(TRUE, "invalid", Missing, Missing) }
    \cup { MetaFile(TRUE, "map", pf, fb) :
             pf \in { Missing, Null, IntVal(1), StrVal(<<"altair">>), StrVal(<<"bellatrix">>),
                      StrVal(<<"CAPELLA">>) },
             fb \in { Missing, Null, StrVal(<<"x">>) } \cup { IntVal(n) : n \in 0..MaxBlockIndex } }

ConfigFile(exists, doc, preset_base, epochs) ==
    [read |-> TRUE, exists |-> exists, doc |-> doc, post_fork |-> Missing,
     fork_block |-> Missing, preset_base |-> preset_base, epochs |-> epochs]

EpochValues == { Null, StrVal(<<"x">>) } \cup { IntVal(n) : n \in 0..MaxEpoch }

\* the forks for which config.yaml may hold two activation epochs at once
PairForks == { <<"bellatrix">>, <<"capella">>, <<"deneb">> }

\* the <VERSION>_FORK_EPOCH keys of config.yaml: none, one (any known fork with an
\* integer, one fork with any kind of value), or two with integer values
EpochMaps ==
    { {} }
    \cup { { <<ForkEpochKey(ALL_FORKS[i]), IntVal(n)>> } : i \in 1..Len(ALL_FORKS), n \in 0..MaxEpoch }
    \cup { { <<ForkEpochKey(<<"bellatrix">>), v>> } : v \in EpochValues }
    \cup { { <<ForkEpochKey(f), IntVal(m)>>, <<ForkEpochKey(g), IntVal(n)>> } :
             <<f, g, m, n>> \in { q \in PairForks \X PairForks \X (0..MaxEpoch) \X (0..MaxEpoch) :
                                    CurrentForkIdx(q[1]) < CurrentForkIdx(q[2]) } }

\* config.yaml: absent, empty, not YAML, or a mapping
ConfigFiles ==
    { ConfigFile(FALSE, "none", Missing, {}),
      ConfigFile(TRUE, "none", Missing, {}),
      ConfigFile(TRUE, "invalid", Missing, {}) }
    \cup { ConfigFile(TRUE, "map", pb, em) :
             pb \in { Missing, IntVal(8), StrVal(<<"minimal">>), StrVal(<<"Minimal">>),
                      StrVal(<<"mainnet">>) },
             em \in EpochMaps }

(***************************************************************************)
(* Fixture paths.                                                          *)
(***************************************************************************)
SSZ_STATIC == <<"ssz", "_", "static">>

PYSPEC_TESTS == <<"pyspec", "_", "tests">>

Slots == { 8 * k : k \in 0..MaxSlotUnits }

\* paths of every shape around the 'tests' marker: with and without it, after the
\* documented data/<version>/tests prefix, with zero to four directories after it
ShapePaths ==
    { head \o SubSeq(<<preset, fork, test_type, suite>>, 1, k) \o tail \o <<file>> :
        head \in { <<>>, << <<"tests">> >>, << <<"data">> >>, << <<"data">>, <<"tests">> >>,
                   << <<"data">>, <<"v1">>, <<"tests">>, <<"tests">> >> },
        preset \in { <<"mainnet">>, <<"minimal">> },
        fork \in { <<"altair">>, <<"gloas">> },
        test_type \in { SSZ_STATIC, <<"operations">> },
        suite \in { <<"BeaconState">>, <<"attestation">> },
        k \in 0..4,
        tail \in { <<>>, << <<"ssz", "_", "random">>, <<"case", "_", "0">> >> },
        file \in { File(<<"serialized">>), PRE } }

TestTypes ==
    { SSZ_STATIC, <<"fork">>, <<"transition">>, LIGHT_CLIENT, <<"merkle", "_", "proof">>,
      <<"operations">>, <<"rewards">>, <<"genesis">>, <<"fork", "_", "choice">>, <<"sync">>,
      <<"epoch", "_", "processing">> }

TestSuites ==
    { <<"sync">>, <<"data", "_", "collection">>, <<"update", "_", "ranking">>,
      <<"single", "_", "merkle", "_", "proof">>, <<"attestation">>, <<"block", "_", "header">>,
      <<"execution", "_", "payload", "_", "bid">>, <<"withdrawals">>, <<"basic">>,
      <<"BeaconState">>, <<"justification", "_", "and", "_", "finalization">> }

FileNames ==
    StateFiles
    \cup { File(stem) : stem \in
             { <<"serialized">>, <<"body">>, <<"signed", "_", "envelope">>,
               <<"anchor", "_", "state">>, <<"anchor", "_", "block">>, <<"block">>,
               <<"block", "_", "0xab">>, <<"blocks", "_", "0">>, <<"attestation", "_", "0xab">>,
               <<"attester", "_", "slashing", "_", "0xab">>, <<"pow", "_", "block", "_", "0xab">>,
               <<"column", "_", "0xab">>, <<"blobs", "_", "0xab">>, <<"update", "_", "0xab">>,
               <<"updates", "_", "0">>, <<"optimistic", "_", "update", "_", "0xab">>,
               <<"finality", "_", "update", "_", "0xab">>, <<"bootstrap", "_", "0xab">>,
               <<"bootstrap">>, <<"object">>, <<"source", "_", "deltas">>,
               <<"deposits", "_", "0">>, <<"state">>, <<"genesis">>, <<"attestation">> } }

\* every test type with every suite and every filename, under one preset and fork
TypePaths ==
    { << <<"tests">>, <<"mainnet">>, <<"altair">>, test_type, suite >> \o tail \o <<file>> :
        test_type \in TestTypes, suite \in TestSuites,
        tail \in { <<>>, << <<"BeaconState">>, <<"basic">> >> },
        file \in FileNames }

DirForks == { <<"phase0">>, <<"altair">>, <<"bellatrix">>, <<"capella">>, <<"whisk">> }

\* fork and transition fixtures
TransitionPaths ==
    { << <<"tests">>, <<"minimal">>, fork, test_type, <<"core">>, PYSPEC_TESTS, <<"basic">>, file >> :
        fork \in DirForks,
        test_type \in { <<"fork">>, <<"transition">> },
        file \in { PRE, File(<<"post">>), File(<<"blocks", "_">>), File(<<"blocks", "_", "x">>) }
                 \cup { File(<<"blocks", "_">> \o DigitsOf(n)) : n \in 0..MaxBlockIndex } }

TestCases ==
    { <<"capella", "_", "fork">>, <<"Deneb", "_", "capella", "_", "reorg">>,
      <<"altair", "_", "bellatrix">> }

LightClientFiles ==
    { INITIAL_STATE, File(<<"bootstrap">>), File(<<"update", "_", "0xab">>),
      File(<<"steps", "_", "8">>) }
    \cup { File(<<"update", "_">> \o DigitsOf(s) \o <<"_", "0xab">>) : s \in Slots }
    \cup { File(<<"finality", "_", "update", "_", "0xab", "_">> \o DigitsOf(s)) : s \in Slots }

\* light-client fixtures
LightClientPaths ==
    { << <<"tests">>, preset, fork, LIGHT_CLIENT, suite >> \o tail \o <<file>> :
        preset \in { <<"mainnet">>, <<"minimal">> },
        fork \in { <<"altair">>, <<"capella">>, <<"whisk">> },
        suite \in { <<"sync">>, <<"data", "_", "collection">> },
        tail \in { <<>> } \cup { <<PYSPEC_TESTS, c>> : c \in TestCases },
        file \in LightClientFiles }

ResolvePaths == ShapePaths \cup TypePaths \cup TransitionPaths \cup LightClientPaths

\* fixtures handed to deserialize_ssz_file
DispatchPaths ==
    { head \o <<preset, fork, ts[1], ts[2], dir, c, file>> :
        head \in { << <<"tests">> >>, << <<"light", "_", "client", "_", "data">>, <<"tests">> >> },
        preset \in { <<"minimal">>, <<"general">> },
        fork \in { <<"altair">>, <<"capella">> },
        ts \in { <<LIGHT_CLIENT, <<"sync">> >>, <<LIGHT_CLIENT, <<"data", "_", "collection">> >>,
                 << <<"sync">>, <<"basic">> >>, << <<"rewards">>, <<"basic">> >> },
        dir \in { PYSPEC_TESTS, <<"sync">> },
        c \in TestCases \cup { <<"light", "_", "client", "_", "sync">>, <<"electra", "_", "fulu">> },
        file \in { File(<<"bootstrap">>), File(<<"source", "_", "deltas">>) } }
    \cup { << <<"tests">>, <<"minimal">>, <<"altair">> >> }

(***************************************************************************)
(* State.                                                                  *)
(***************************************************************************)
VARIABLES
    input_path,          \* the parts of the fixture's path
    PREVIOUS_FORK_OF,    \* the fork transition table, loaded at import
    meta_yaml,           \* meta.yaml as parse_ssz_path read it (Unread if it did not)
    config_yaml,         \* config.yaml as parse_ssz_path read it (Unread if it did not)
    registry,            \* the type registry's answers so far: <<module path, answer>>
    decoder,             \* the decoder's answers so far: <<type class, decoded>>
    pc,                  \* the position in deserialize_ssz_file
    parsed,              \* what parse_ssz_path returned or raised
    fork,                \* the local 'fork' of deserialize_ssz_file
    alternative_forks,   \* the fallback candidates
    ssz_type_class,      \* the type class last resolved
    error,               \* the exception e caught from the primary decode
    next_alt,            \* the index of the next candidate of the fallback loop
    tried,               \* the candidates the fallback loop has taken up, in order
    ssz_obj,             \* the decoded object returned
    raised               \* the exception that left deserialize_ssz_file

\* the state of scripts/check_missing_yamls.py
VARIABLES
    tree,                  \* the files under tests_dir, as paths relative to it
    apc,                   \* the position in main / check_missing_yamls
    preset_idx,            \* the index of the next preset of "for preset in [...]"
    frames,                \* os.walk: the directories still to visit, innermost level last
    files,                 \* the files of the current directory still to visit
    total_ssz,
    total_yaml,
    missing_count,
    missing_by_test_type,  \* a dict in insertion order: a sequence of <<test_key, count>>
    missing_files,
    reports                \* what each invocation printed, in the order of the invocations

audit_vars == <<tree, apc, preset_idx, frames, files, total_ssz, total_yaml, missing_count,
                missing_by_test_type, missing_files, reports>>

vars == <<input_path, PREVIOUS_FORK_OF, meta_yaml, config_yaml, registry, decoder, pc, parsed,
          fork, alternative_forks, ssz_type_class, error, next_alt, tried, ssz_obj, raised,
          audit_vars>>

\* check_missing_yamls.py has not been invoked
AuditIdle ==
    /\ tree = {}
    /\ apc = "idle"
    /\ preset_idx = 1
    /\ frames = <<>>
    /\ files = {}
    /\ total_ssz = 0
    /\ total_yaml = 0
    /\ missing_count = 0
    /\ missing_by_test_type = <<>>
    /\ missing_files = <<>>
    /\ reports = <<>>

NoError == [kind |-> "none", fork |-> <<>>]

NoObject == [decoded |-> FALSE, cls |-> NoClass]

InitLocals ==
    /\ meta_yaml = Unread
    /\ config_yaml = Unread
    /\ registry = {}
    /\ decoder = {}
    /\ pc = "start"
    /\ parsed = ParseError("none")
    /\ fork = <<>>
    /\ alternative_forks = <<>>
    /\ ssz_type_class = NoClass
    /\ error = NoError
    /\ next_alt = 1
    /\ tried = <<>>
    /\ ssz_obj = NoObject
    /\ raised = NoError

\* the test types whose rules consult the transition table
ReadsTable(parts) ==
    ~PathTooShort(parts) /\ TestType(parts) \in { <<"fork">>, <<"transition">> }

\* a call of parse_ssz_path on any fixture path; the transition table is any of
\* the tables for the fixtures whose rules consult it
InitResolve ==
    /\ input_path \in ResolvePaths
    /\ PREVIOUS_FORK_OF \in (IF ReadsTable(input_path) THEN Tables ELSE {StandardTable})
    /\ InitLocals
    /\ AuditIdle

\* a call of deserialize_ssz_file
Init ==
    /\ input_path \in DispatchPaths
    /\ PREVIOUS_FORK_OF = StandardTable
    /\ InitLocals
    /\ AuditIdle

(***************************************************************************)
(* deserialize_ssz_file, step by step.                                     *)
(***************************************************************************)
\* preset, fork, type_name, filename = parse_ssz_path(input_path)
ParsePath ==
    /\ pc = "start"
    /\ \E meta \in (IF ReadsMeta(input_path) THEN MetaFiles ELSE {Unread}),
          config \in (IF ReadsConfig(input_path) THEN ConfigFiles ELSE {Unread}) :
          /\ meta_yaml' = meta
          /\ config_yaml' = config
          /\ parsed' = parse_ssz_path(input_path, PREVIOUS_FORK_OF, meta, config)
    /\ fork' = parsed'.fork
    /\ IF parsed'.exc = "none"
       THEN pc' = "parsed" /\ raised' = raised
       ELSE pc' = "raised" /\ raised' = [kind |-> parsed'.exc, fork |-> <<>>]
    /\ UNCHANGED <<input_path, PREVIOUS_FORK_OF, registry, decoder, alternative_forks,
                   ssz_type_class, error, next_alt, tried, ssz_obj>>
    /\ UNCHANGED audit_vars

\* is_light_client_sync and alternative_forks
CollectAlternatives ==
    /\ pc = "parsed"
    /\ alternative_forks' = AlternativeForks(input_path, fork)
    /\ pc' = "lookup"
    /\ UNCHANGED <<input_path, PREVIOUS_FORK_OF, meta_yaml, config_yaml, registry, decoder,
                   parsed, fork, ssz_type_class, error, next_alt, tried, ssz_obj, raised>>
    /\ UNCHANGED audit_vars

\* the registry answers the same question the same way
LookupAnswers(preset, f, type_name) ==
    IF ~NeedsLookup(type_name) THEN {"ok"}
    ELSE IF HasKey(registry, ModulePath(preset, f)) THEN {Get(registry, ModulePath(preset, f))}
    ELSE {"ok", "ImportError", "AttributeError"}

Asked(preset, f, type_name, lookup) ==
    IF NeedsLookup(type_name) THEN Put(registry, ModulePath(preset, f), lookup) ELSE registry

\* the decoder answers the same question the same way
DecodeAnswers(cls) == IF HasKey(decoder, cls) THEN {Get(decoder, cls)} ELSE BOOLEAN

\* ssz_type_class = get_ssz_type_class(preset, fork, type_name): outside the try
LoadPrimaryType ==
    /\ pc = "lookup"
    /\ \E lookup \in LookupAnswers(parsed.preset, fork, parsed.type_name) :
          LET r == get_ssz_type_class(parsed.preset, fork, parsed.type_name, lookup)
          IN  /\ registry' = Asked(parsed.preset, fork, parsed.type_name, lookup)
              /\ ssz_type_class' = r.cls
              /\ IF r.exc = "none"
                 THEN pc' = "decode" /\ raised' = raised
                 ELSE pc' = "raised" /\ raised' = [kind |-> r.exc, fork |-> fork]
    /\ UNCHANGED <<input_path, PREVIOUS_FORK_OF, meta_yaml, config_yaml, decoder, parsed, fork,
                   alternative_forks, error, next_alt, tried, ssz_obj>>
    /\ UNCHANGED audit_vars

\* the primary decode and its except clause
DecodePrimary ==
    /\ pc = "decode"
    /\ \E ok \in DecodeAnswers(ssz_type_class) :
          /\ decoder' = Put(decoder, ssz_type_class, ok)
          /\ IF ok
             THEN /\ ssz_obj' = [decoded |-> TRUE, cls |-> ssz_type_class]
                  /\ pc' = "done"
                  /\ UNCHANGED <<error, raised>>
             ELSE IF IsLightClientSync(input_path) /\ alternative_forks # <<>>
             THEN /\ error' = [kind |-> "DecodeError", fork |-> fork]
                  /\ pc' = "retry"
                  /\ UNCHANGED <<ssz_obj, raised>>
             ELSE /\ raised' = [kind |-> "DecodeError", fork |-> fork]
                  /\ pc' = "raised"
                  /\ UNCHANGED <<ssz_obj, error>>
    /\ UNCHANGED <<input_path, PREVIOUS_FORK_OF, meta_yaml, config_yaml, registry, parsed, fork,
                   alternative_forks, ssz_type_class, next_alt, tried>>
    /\ UNCHANGED audit_vars

\* one iteration of "for alt_fork in alternative_forks"
TryAlternative ==
    /\ pc = "retry"
    /\ next_alt <= Len(alternative_forks)
    /\ LET alt_fork == alternative_forks[next_alt]
       IN  /\ tried' = Append(tried, alt_fork)
           /\ \E lookup \in LookupAnswers(parsed.preset, alt_fork, parsed.type_name) :
                 LET r == get_ssz_type_class(parsed.preset, alt_fork, parsed.type_name, lookup)
                 IN  /\ registry' = Asked(parsed.preset, alt_fork, parsed.type_name, lookup)
                     /\ IF r.exc # "none"
                        THEN /\ next_alt' = next_alt + 1
                             /\ UNCHANGED <<decoder, ssz_type_class, fork, ssz_obj, pc>>
                        ELSE /\ ssz_type_class' = r.cls
                             /\ \E ok \in DecodeAnswers(r.cls) :
                                   /\ decoder' = Put(decoder, r.cls, ok)
                                   /\ IF ok
                                      THEN /\ ssz_obj' = [decoded |-> TRUE, cls |-> r.cls]
                                           /\ fork' = alt_fork
                                           /\ pc' = "done"
                                           /\ UNCHANGED next_alt
                                      ELSE /\ next_alt' = next_alt + 1
                                           /\ UNCHANGED <<fork, ssz_obj, pc>>
    /\ UNCHANGED <<input_path, PREVIOUS_FORK_OF, meta_yaml, config_yaml, parsed,
                   alternative_forks, error, raised>>
    /\ UNCHANGED audit_vars

\* a loop that ends by raising the failure of the last candidate it tried
ReRaiseLast ==
    /\ pc = "retry"
    /\ next_alt > Len(alternative_forks)
    /\ raised' = [kind |-> "DecodeError", fork |-> tried[Len(tried)]]
    /\ pc' = "raised"
    /\ UNCHANGED <<input_path, PREVIOUS_FORK_OF, meta_yaml, config_yaml, registry, decoder,
                   parsed, fork, alternative_forks, ssz_type_class, error, next_alt, tried,
                   ssz_obj>>
    /\ UNCHANGED audit_vars

\* the else clause of the loop: raise e
ReRaiseOriginal ==
    /\ pc = "retry"
    /\ next_alt > Len(alternative_forks)
    /\ raised' = error
    /\ pc' = "raised"
    /\ UNCHANGED <<input_path, PREVIOUS_FORK_OF, meta_yaml, config_yaml, registry, decoder,
                   parsed, fork, alternative_forks, ssz_type_class, error, next_alt, tried,
                   ssz_obj>>
    /\ UNCHANGED audit_vars

Next ==
    \/ ParsePath
    \/ CollectAlternatives
    \/ LoadPrimaryType
    \/ DecodePrimary
    \/ TryAlternative
    \/ ReRaiseOriginal

Spec == Init /\ [][Next]_vars

SpecResolve == InitResolve /\ [][ParsePath]_vars

(***************************************************************************)
(* scripts/check_missing_yamls.py.  The tree under tests_dir is the set of *)
(* its files, each a path relative to tests_dir; a directory exists when a *)
(* file lies under it.                                                     *)
(***************************************************************************)
\* the atoms of the audit's paths in the order of Python's string comparison; no atom is
\* a prefix of another, so comparing atom by atom is comparing character by character
AtomOrder ==
    << ".", "/", "_", "altair", "attestation", "blocks", "general", "mainnet", "minimal",
       "operations", "post", "pre", "pyspec", "snappy", "ssz", "tests", "yaml" >>

AtomRank(a) == CHOOSE i \in 1..Len(AtomOrder) : AtomOrder[i] = a

RECURSIVE StrLess(_, _)
\* s < t for Python strings
StrLess(s, t) ==
    IF s = <<>> THEN t # <<>>
    ELSE IF t = <<>> THEN FALSE
    ELSE IF s[1] = t[1] THEN StrLess(Tail(s), Tail(t))
    ELSE AtomRank(s[1]) < AtomRank(t[1])

RECURSIVE InsertStr(_, _)
InsertStr(sorted, x) ==
    IF sorted = <<>> THEN <<x>>
    ELSE IF StrLess(x, Head(sorted)) THEN <<x>> \o sorted
    ELSE <<Head(sorted)>> \o InsertStr(Tail(sorted), x)

RECURSIVE SortedStrings(_)
\* sorted(results['missing_files'])
SortedStrings(strs) ==
    IF strs = <<>> THEN <<>>
    ELSE InsertStr(SortedStrings(SubSeq(strs, 1, Len(strs) - 1)), strs[Len(strs)])

RECURSIVE InsertByCount(_, _)
\* the place of an item among the items before it: behind every item whose count is not
\* smaller (sorted() is stable)
InsertByCount(sorted, item) ==
    IF sorted = <<>> THEN <<item>>
    ELSE IF Head(sorted)[2] >= item[2] THEN <<Head(sorted)>> \o InsertByCount(Tail(sorted), item)
    ELSE <<item>> \o sorted

RECURSIVE SortedByCount(_)
\* sorted(results['missing_by_test_type'].items(), key=lambda x: -x[1])
SortedByCount(items) ==
    IF items = <<>> THEN <<>>
    ELSE InsertByCount(SortedByCount(SubSeq(items, 1, Len(items) - 1)), items[Len(items)])

\* missing_by_test_type[test_key] += 1 on a defaultdict(int): a new key goes to the end
Increment(d, key) ==
    IF \E i \in 1..Len(d) : d[i][1] = key
    THEN [i \in 1..Len(d) |-> IF d[i][1] = key THEN <<key, d[i][2] + 1>> ELSE d[i]]
    ELSE Append(d, <<key, 1>>)

PRESETS == << <<"minimal">>, <<"mainnet">> >>

YAML == <<".", "yaml">>

\* file.endswith('.ssz_snappy') and not file.endswith('.ssz_snappy.yaml')
IsSszFile(file) == EndsWith(file, SSZ_SNAPPY) /\ ~EndsWith(file, SSZ_SNAPPY \o YAML)

IsUnder(path, dir) == Len(path) > Len(dir) /\ SubSeq(path, 1, Len(dir)) = dir

\* Path.exists()
Exists(t, path) == path \in t \/ \E p \in t : IsUnder(p, path)

\* the files and the directories that os.walk yields for a directory
FilesIn(t, dir) == { p \in t : IsUnder(p, dir) /\ Len(p) = Len(dir) + 1 }

DirsIn(t, dir) ==
    { SubSeq(p, 1, Len(dir) + 1) : p \in { q \in t : IsUnder(q, dir) /\ Len(q) > Len(dir) + 1 } }

\* Path(root) / (file + '.yaml')
YamlFile(ssz_file) ==
    SubSeq(ssz_file, 1, Len(ssz_file) - 1) \o <<ssz_file[Len(ssz_file)] \o YAML>>

\* f"{parts[0]}/{parts[1]}/{parts[2]}/{parts[3]}"
TestKey(parts) == JoinWith(SubSeq(parts, 1, 4), "/")

RECURSIVE DropEmpty(_)
\* the levels of the walk that still hold a directory
DropEmpty(fs) ==
    IF fs # <<>> /\ fs[Len(fs)] = {} THEN DropEmpty(SubSeq(fs, 1, Len(fs) - 1)) ELSE fs

TESTS_DIR == <<"data", "/", "v1", "/", "tests">>

\* what main prints: the three totals, the lines of the categories and the lines of the
\* files (neither is printed when nothing is missing)
Report ==
    [total_ssz |-> total_ssz,
     total_yaml |-> total_yaml,
     missing_count |-> missing_count,
     by_test_type |-> IF missing_count > 0 THEN SortedByCount(missing_by_test_type) ELSE <<>>,
     file_lines |-> IF missing_count > 0
                    THEN [i \in 1..Len(missing_files) |->
                            TESTS_DIR \o <<"/">> \o SortedStrings(missing_files)[i]]
                    ELSE <<>>]

\* the files a tree is made of
AttestationDir ==
    << <<"minimal">>, <<"altair">>, <<"operations">>, <<"attestation">>, PYSPEC_TESTS >>

BlocksDir == << <<"minimal">>, <<"altair">>, <<"operations">>, <<"blocks">> >>

AuditFiles ==
    { AttestationDir \o <<PRE>>,
      AttestationDir \o <<PRE \o YAML>>,
      AttestationDir \o <<File(<<"post">>)>>,
      BlocksDir \o <<PRE>>,
      BlocksDir \o <<PRE \o YAML>>,
      << <<"minimal">>, <<"altair">>, PRE >>,
      << <<"mainnet">>, <<"altair">>, <<"operations">>, PRE >>,
      << <<"mainnet">>, <<"altair">>, <<"operations">>, <<"attestation">>, File(<<"post">>) >>,
      << <<"general">>, <<"altair">>, <<"operations">>, <<"attestation">>, PRE >> }

Trees == { t \in SUBSET AuditFiles : Cardinality(t) <= MaxFiles }

\* the locals of check_missing_yamls at its start
AuditLocals ==
    /\ preset_idx = 1
    /\ frames = <<>>
    /\ files = {}
    /\ total_ssz = 0
    /\ total_yaml = 0
    /\ missing_count = 0
    /\ missing_by_test_type = <<>>
    /\ missing_files = <<>>

InitAudit ==
    /\ tree \in Trees
    /\ apc = "idle"
    /\ AuditLocals
    /\ reports = <<>>
    /\ input_path = <<>>
    /\ PREVIOUS_FORK_OF = {}
    /\ InitLocals

deserialize_vars ==
    <<input_path, PREVIOUS_FORK_OF, meta_yaml, config_yaml, registry, decoder, pc, parsed,
      fork, alternative_forks, ssz_type_class, error, next_alt, tried, ssz_obj, raised>>

\* main calls check_missing_yamls(tests_dir)
Main ==
    /\ apc = "idle"
    /\ Len(reports) < MaxRuns
    /\ apc' = "scan"
    /\ preset_idx' = 1
    /\ frames' = <<>>
    /\ files' = {}
    /\ total_ssz' = 0
    /\ total_yaml' = 0
    /\ missing_count' = 0
    /\ missing_by_test_type' = <<>>
    /\ missing_files' = <<>>
    /\ UNCHANGED <<tree, reports, deserialize_vars>>

\* for preset in ['minimal', 'mainnet']: the walk of a preset starts when the walk of the
\* preset before it has ended
NextPreset ==
    /\ apc = "scan"
    /\ preset_idx <= Len(PRESETS)
    /\ frames = <<>>
    /\ files = {}
    /\ frames' = IF Exists(tree, <<PRESETS[preset_idx]>>)
                 THEN << {<<PRESETS[preset_idx]>>} >>
                 ELSE <<>>
    /\ preset_idx' = preset_idx + 1
    /\ UNCHANGED <<tree, apc, files, total_ssz, total_yaml, missing_count,
                   missing_by_test_type, missing_files, reports, deserialize_vars>>

\* os.walk yields the next directory: any of the directories of the innermost level that
\* still holds one, top-down
WalkDirectory ==
    /\ apc = "scan"
    /\ files = {}
    /\ frames # <<>>
    /\ \E root \in frames[Len(frames)] :
          /\ files' = FilesIn(tree, root)
          /\ frames' = DropEmpty([frames EXCEPT ![Len(frames)] = @ \ {root}]
                                 \o << DirsIn(tree, root) >>)
    /\ UNCHANGED <<tree, apc, preset_idx, total_ssz, total_yaml, missing_count,
                   missing_by_test_type, missing_files, reports, deserialize_vars>>

\* one iteration of "for file in files", the files of a directory in any order
ScanFile ==
    /\ apc = "scan"
    /\ \E ssz_file \in files :
          LET file == ssz_file[Len(ssz_file)]
              parts == ssz_file
          IN  /\ files' = files \ {ssz_file}
              /\ IF ~IsSszFile(file)
                 THEN UNCHANGED <<total_ssz, total_yaml, missing_count, missing_by_test_type,
                                  missing_files>>
                 ELSE /\ total_ssz' = total_ssz + 1
                      /\ IF Exists(tree, YamlFile(ssz_file))
                         THEN /\ total_yaml' = total_yaml + 1
                              /\ UNCHANGED <<missing_count, missing_by_test_type, missing_files>>
                         ELSE /\ missing_count' = missing_count + 1
                              /\ UNCHANGED total_yaml
                              /\ IF Len(parts) >= 4
                                 THEN /\ missing_by_test_type' =
                                            Increment(missing_by_test_type, TestKey(parts))
                                      /\ missing_files' = Append(missing_files, PathStr(parts))
                                 ELSE UNCHANGED <<missing_by_test_type, missing_files>>
    /\ UNCHANGED <<tree, apc, preset_idx, frames, reports, deserialize_vars>>

\* the return of check_missing_yamls
ReturnResults ==
    /\ apc = "scan"
    /\ preset_idx > Len(PRESETS)
    /\ frames = <<>>
    /\ files = {}
    /\ apc' = "returned"
    /\ UNCHANGED <<tree, preset_idx, frames, files, total_ssz, total_yaml, missing_count,
                   missing_by_test_type, missing_files, reports, deserialize_vars>>

\* main prints the report
PrintReport ==
    /\ apc = "returned"
    /\ reports' = Append(reports, Report)
    /\ apc' = "idle"
    /\ UNCHANGED <<tree, preset_idx, frames, files, total_ssz, total_yaml, missing_count,
                   missing_by_test_type, missing_files, deserialize_vars>>

NextAudit ==
    \/ Main
    \/ NextPreset
    \/ WalkDirectory
    \/ ScanFile
    \/ ReturnResults
    \/ PrintReport

SpecAudit == InitAudit /\ [][NextAudit]_vars

(***************************************************************************)
(* Properties.  They read the path through AfterMarker, not through the    *)
(* operators of the model.                                                 *)
(***************************************************************************)
RECURSIVE AfterMarker(_)
\* the segments that follow the first 'tests' segment
AfterMarker(parts) ==
    IF parts = <<>> THEN <<>>
    ELSE IF Head(parts) = <<"tests">> THEN Tail(parts)
    ELSE AfterMarker(Tail(parts))

HasMarker(parts) == \E i \in 1..Len(parts) : parts[i] = <<"tests">>

WellFormed(parts) == HasMarker(parts) /\ Len(AfterMarker(parts)) >= 4

Returned == pc # "start" /\ parsed.exc = "none"

LastSegment == input_path[Len(input_path)]

\* the fixture is of the light_client test type and the sync suite
InSyncCategory ==
    /\ WellFormed(input_path)
    /\ AfterMarker(input_path)[3] = <<"light", "_", "client">>
    /\ AfterMarker(input_path)[4] = <<"sync">>

\* the position of the first occurrence of a fork name in the lower-cased path
FirstPos(f) == FindFirst(Lower(PathStr(input_path)), f)

\* the fallback order of the code, restricted to the names that occur in the path and
\* differ from the fork of the primary attempt
ExpectedCandidates ==
    SelectSeq(<< <<"deneb">>, <<"electra">>, <<"capella">>, <<"bellatrix">>, <<"altair">> >>,
              LAMBDA f : Contains(Lower(PathStr(input_path)), f) /\ f # parsed.fork)

\* the class a candidate fork resolves to when the registry has it
ClassOf(f) == get_ssz_type_class(parsed.preset, f, parsed.type_name, "ok").cls

\* the attempt with fork f failed: the type lookup failed or the decoder rejected the bytes
AttemptFailed(f) ==
    \/ /\ parsed.type_name # <<"Deltas">>
       /\ \E p \in registry : p[1] = ModulePath(parsed.preset, f) /\ p[2] # "ok"
    \/ \E p \in decoder : p[1] = ClassOf(f) /\ p[2] = FALSE

\* C1 (as amended): after a failed primary decode the candidates are taken up at most once
\* each, in the fixed order deneb, electra, capella, bellatrix, altair (of those, the names
\* that occur in the path and differ from the primary fork); the loop stops at the first
\* candidate that decodes and returns that candidate's object, and gives up only after
\* every candidate has failed.
C1_FixedOrderFirstSuccess ==
    /\ tried = SubSeq(ExpectedCandidates, 1, Len(tried))
    /\ Len(tried) <= Len(ExpectedCandidates)
    /\ \A i, j \in 1..Len(tried) : i # j => tried[i] # tried[j]
    /\ \A i \in 1..(Len(tried) - 1) : AttemptFailed(tried[i])
    /\ (pc = "done" /\ tried # <<>>) =>
          /\ ssz_obj = [decoded |-> TRUE, cls |-> ClassOf(tried[Len(tried)])]
          /\ fork = tried[Len(tried)]
          /\ ~AttemptFailed(tried[Len(tried)])
    /\ (pc = "raised" /\ tried # <<>>) =>
          /\ tried = ExpectedCandidates
          /\ AttemptFailed(tried[Len(tried)])

\* C1 witness: a second candidate decoded after the first candidate failed
C1_Witness ==
    /\ pc = "done"
    /\ Len(tried) = 2
    /\ fork = tried[2]
    /\ ssz_obj.decoded

\* C1 (as claimed): the candidates are taken up in the order in which their names occur
\* in the path.
C1_PathOccurrenceOrder ==
    (Returned /\ InSyncCategory) =>
        \A i, j \in 1..Len(tried) : i < j => FirstPos(tried[i]) < FirstPos(tried[j])

\* C2 (as claimed): for a fixture outside the light_client/sync category no alternate fork
\* is ever taken up.
C2_NoRetryOutsideSync ==
    (Returned /\ ~InSyncCategory) => (tried = <<>> /\ pc # "retry")

\* C3: when the primary decode fails and every candidate fails too, the exception that
\* leaves deserialize_ssz_file is the failure of the primary fork.
C3_OriginalFailureReRaised ==
    (pc = "raised" /\ tried # <<>>) =>
        /\ raised = [kind |-> "DecodeError", fork |-> parsed.fork]
        /\ \A i \in 1..Len(tried) : raised.fork # tried[i]

\* C3 witness: two candidates failed, one at the type lookup and one at the decode
C3_Witness ==
    /\ pc = "raised"
    /\ Len(tried) >= 2
    /\ \E i \in 1..Len(tried) :
          \E p \in registry : p[1] = ModulePath(parsed.preset, tried[i]) /\ p[2] # "ok"
    /\ \E i \in 1..Len(tried) : \E p \in decoder : p[1] = ClassOf(tried[i]) /\ p[2] = FALSE

\* C4: parse_ssz_path raises ValueError, and returns nothing, when the path has no 'tests'
\* segment or fewer than four segments after the first one; otherwise it does not raise
\* ValueError and what it returns is taken from the first four segments after the marker.
C4_MalformedPathRaises ==
    pc # "start" =>
        LET a == AfterMarker(input_path)
        IN  /\ ~WellFormed(input_path) =>
                 (parsed.exc = "ValueError" /\ pc = "raised" /\ raised.kind = "ValueError")
            /\ WellFormed(input_path) => parsed.exc # "ValueError"
            /\ (WellFormed(input_path) /\ parsed.exc = "none") =>
                 /\ parsed.preset = a[1]
                 /\ a[3] \notin { <<"fork">>, <<"transition">>, <<"light", "_", "client">> }
                       => parsed.fork = a[2]
                 /\ a[3] = <<"ssz", "_", "static">> => parsed.type_name = a[4]
                 /\ (a[3] = <<"operations">> /\ a[4] = <<"attestation">>
                     /\ LastSegment = <<"serialized", ".", "ssz", "_", "snappy">>)
                       => parsed.type_name = <<"Attestation">>

\* C4 witness: a path with exactly three segments after the marker was rejected
C4_Witness ==
    /\ pc = "raised"
    /\ HasMarker(input_path)
    /\ Len(AfterMarker(input_path)) = 3
    /\ raised.kind = "ValueError"

\* C5 (as claimed): for data/<version>/tests/tests/<preset>/<fork>/ssz_static/<TypeName>/...
\* parse_ssz_path returns <preset>, <fork> and <TypeName>.
C5_DocumentedLayout ==
    (/\ pc # "start"
     /\ Len(input_path) >= 9
     /\ input_path[1] = <<"data">>
     /\ input_path[3] = <<"tests">>
     /\ input_path[4] = <<"tests">>
     /\ input_path[7] = <<"ssz", "_", "static">>)
    => /\ parsed.exc = "none"
       /\ parsed.preset = input_path[5]
       /\ parsed.fork = input_path[6]
       /\ parsed.type_name = input_path[8]

\* the five filenames that denote a full state
StateFileNames ==
    { <<"pre", ".", "ssz", "_", "snappy">>, <<"post", ".", "ssz", "_", "snappy">>,
      <<"pre", "_", "epoch", ".", "ssz", "_", "snappy">>,
      <<"post", "_", "epoch", ".", "ssz", "_", "snappy">>,
      <<"initial", "_", "state", ".", "ssz", "_", "snappy">> }

\* C6 (as amended): a state filename resolves to BeaconState for every test type but
\* ssz_static, and for ssz_static to the suite segment.
C6_StateFilesOutsideSszStatic ==
    (Returned /\ LastSegment \in StateFileNames) =>
        IF AfterMarker(input_path)[3] = <<"ssz", "_", "static">>
        THEN parsed.type_name = AfterMarker(input_path)[4]
        ELSE parsed.type_name = <<"BeaconState">>

\* C6 witness: initial_state.ssz_snappy of a rewards fixture resolved to BeaconState
C6_Witness ==
    /\ Returned
    /\ LastSegment = <<"initial", "_", "state", ".", "ssz", "_", "snappy">>
    /\ AfterMarker(input_path)[3] = <<"rewards">>
    /\ parsed.type_name = <<"BeaconState">>

\* C6 (as claimed): a state filename resolves to BeaconState whatever the test type.
C6_StateFilesAlways ==
    (Returned /\ LastSegment \in StateFileNames) => parsed.type_name = <<"BeaconState">>

\* the directory fork, test type and filename of a well-formed path
DirForkSegment == AfterMarker(input_path)[2]

TestTypeSegment == AfterMarker(input_path)[3]

IsPreFile == LastSegment = <<"pre", ".", "ssz", "_", "snappy">>

\* f has a predecessor in the transition table, and it is p
PredecessorIs(f, p) == \E e \in PREVIOUS_FORK_OF : e[1] = f /\ e[2] = p

HasPredecessor(f) == \E e \in PREVIOUS_FORK_OF : e[1] = f

\* the post_fork that meta.yaml gives for a directory fork: its own string, lower-cased,
\* or the directory fork when it has no such key
GivenPostFork ==
    IF meta_yaml.post_fork.t = "str" THEN Lower(meta_yaml.post_fork.s) ELSE DirForkSegment

MetaUsable ==
    /\ meta_yaml.read
    /\ meta_yaml.exists
    /\ meta_yaml.doc = "map"
    /\ meta_yaml.post_fork.t \in {"str", "missing"}

\* C7 (as amended): for pre.ssz_snappy of a 'fork' fixture whose directory fork F has the
\* predecessor P, the effective fork is P.  For pre.ssz_snappy of a 'transition' fixture it
\* is the predecessor of meta.yaml's post_fork (of F when meta.yaml has no post_fork) when
\* meta.yaml is a mapping and that predecessor is known, and F when meta.yaml is absent.
C7_PreStatePredecessor ==
    (pc # "start" /\ WellFormed(input_path) /\ IsPreFile) =>
        /\ (TestTypeSegment = <<"fork">> /\ HasPredecessor(DirForkSegment)) =>
              (parsed.exc = "none" /\ PredecessorIs(DirForkSegment, parsed.fork))
        /\ (TestTypeSegment = <<"transition">> /\ MetaUsable /\ HasPredecessor(GivenPostFork)) =>
              (parsed.exc = "none" /\ PredecessorIs(GivenPostFork, parsed.fork))
        /\ (TestTypeSegment = <<"transition">> /\ ~meta_yaml.exists) =>
              (parsed.exc = "none" /\ parsed.fork = DirForkSegment)

\* C7 witness: pre.ssz_snappy of a 'fork' fixture under altair resolved to phase0
C7_Witness ==
    /\ Returned
    /\ IsPreFile
    /\ TestTypeSegment = <<"fork">>
    /\ DirForkSegment = <<"altair">>
    /\ parsed.fork = <<"phase0">>

\* C7 (as claimed): for pre.ssz_snappy of a fork or transition fixture whose directory fork
\* F has the predecessor P, the effective fork is P.
C7_PredecessorOfDirectoryFork ==
    (/\ pc # "start"
     /\ WellFormed(input_path)
     /\ IsPreFile
     /\ TestTypeSegment \in { <<"fork">>, <<"transition">> }
     /\ HasPredecessor(DirForkSegment))
    => (parsed.exc = "none" /\ PredecessorIs(DirForkSegment, parsed.fork))

\* meta.yaml was looked for and is absent, empty, lacks a key that the rule of this file
\* reads, or holds for it a value of another kind than the rule needs
MetaDegraded ==
    /\ meta_yaml.read
    /\ \/ ~meta_yaml.exists
       \/ meta_yaml.doc = "none"
       \/ meta_yaml.doc = "map" /\ meta_yaml.post_fork.t # "str"
       \/ meta_yaml.doc = "map" /\ ~IsPreFile /\ meta_yaml.fork_block.t # "int"

\* config.yaml was looked for and is absent, empty, holds no activation epoch at all, or
\* holds a PRESET_BASE that is no string or an activation epoch that is no number
ConfigDegraded ==
    /\ config_yaml.read
    /\ \/ ~config_yaml.exists
       \/ config_yaml.doc = "none"
       \/ config_yaml.doc = "map" /\ config_yaml.epochs = {}
       \/ config_yaml.doc = "map" /\ config_yaml.preset_base.t \notin {"str", "missing"}
       \/ config_yaml.doc = "map" /\ \E e \in config_yaml.epochs : e[2].t # "int"

\* C8 (as claimed): with a sidecar absent, empty, lacking a key or holding a value of an
\* unusable kind, resolution does not fail and the effective fork is the directory fork.
C8_SidecarBestEffort ==
    (pc # "start" /\ WellFormed(input_path) /\ (MetaDegraded \/ ConfigDegraded)) =>
        (parsed.exc = "none" /\ parsed.fork = DirForkSegment)

\* the position of a fork in the fixed order of known forks, 0 for an unknown name
KnownForkOrder ==
    << <<"phase0">>, <<"altair">>, <<"bellatrix">>, <<"capella">>, <<"deneb">>, <<"electra">>,
       <<"eip7805">>, <<"fulu">>, <<"gloas">> >>

Position(f) ==
    IF \E i \in 1..9 : KnownForkOrder[i] = f THEN CHOOSE i \in 1..9 : KnownForkOrder[i] = f ELSE 0

\* the filename encodes the slot s: update_<s>_<hash>.ssz_snappy or
\* finality_update_<hash>_<s>.ssz_snappy
EncodesSlot(s) ==
    \/ LastSegment = <<"update", "_">> \o DigitsOf(s) \o <<"_", "0xab", ".", "ssz", "_", "snappy">>
    \/ LastSegment = <<"finality", "_", "update", "_", "0xab", "_">> \o DigitsOf(s)
                        \o <<".", "ssz", "_", "snappy">>

\* slots per epoch as config.yaml gives it
SlotsPerEpochOf(cfg) ==
    IF cfg.preset_base.t = "str" /\ cfg.preset_base.s \in { <<"minimal">>, <<"Minimal">> }
    THEN 8 ELSE 32

\* config.yaml is a mapping whose only activation-epoch key is that of v2, reached at slot s
OnlyKeyReached(v2, s) ==
    /\ config_yaml.read
    /\ config_yaml.exists
    /\ config_yaml.doc = "map"
    /\ config_yaml.preset_base.t \in {"str", "missing"}
    /\ \E e \in 0..(s \div SlotsPerEpochOf(config_yaml)) :
          config_yaml.epochs =
              { << <<UpperAtom(v2[1]), "_", "FORK", "_", "EPOCH">>, IntVal(e) >> }

LightClientWithSlot(s) ==
    /\ pc # "start"
    /\ WellFormed(input_path)
    /\ TestTypeSegment = <<"light", "_", "client">>
    /\ EncodesSlot(s)

\* C9 (as amended): with the only activation-epoch key that of V2, reached at S div K, the
\* effective fork is V2 whenever V2 is not older than the directory fork in the order of
\* known forks (an unknown directory fork counts as the oldest); when V2 is older, the
\* effective fork is the directory fork.
C9_SlotBoundaryAdvances ==
    \A s \in Slots : \A i \in 1..9 :
        (LightClientWithSlot(s) /\ OnlyKeyReached(KnownForkOrder[i], s)) =>
            /\ parsed.exc = "none"
            /\ IF i >= Position(DirForkSegment)
               THEN parsed.fork = KnownForkOrder[i]
               ELSE parsed.fork = DirForkSegment

\* C9 witness: a fixture under altair at a slot past capella's epoch resolved to capella
C9_Witness ==
    /\ \E s \in Slots : LightClientWithSlot(s) /\ OnlyKeyReached(<<"capella">>, s)
    /\ DirForkSegment = <<"altair">>
    /\ parsed.exc = "none"
    /\ parsed.fork = <<"capella">>

\* C9 (as claimed): with the only activation-epoch key that of V2, reached at S div K, the
\* effective fork is V2, for every directory fork and every known V2.
C9_AnyDirectoryFork ==
    \A s \in Slots : \A i \in 1..9 :
        (LightClientWithSlot(s) /\ OnlyKeyReached(KnownForkOrder[i], s)) =>
            (parsed.exc = "none" /\ parsed.fork = KnownForkOrder[i])

\* C10: initial_state.ssz_snappy of a light_client fixture resolves to the directory fork,
\* without config.yaml being read.
C10_InitialStateKeepsDirectoryFork ==
    (/\ pc # "start"
     /\ WellFormed(input_path)
     /\ TestTypeSegment = <<"light", "_", "client">>
     /\ LastSegment = <<"initial", "_", "state", ".", "ssz", "_", "snappy">>)
    => /\ parsed.exc = "none"
       /\ parsed.fork = DirForkSegment
       /\ ~config_yaml.read

\* C10 witness: initial_state.ssz_snappy of a data_collection test case that names deneb
\* and capella, under altair
C10_Witness ==
    /\ Returned
    /\ TestTypeSegment = <<"light", "_", "client">>
    /\ AfterMarker(input_path)[4] = <<"data", "_", "collection">>
    /\ Len(AfterMarker(input_path)) = 7
    /\ AfterMarker(input_path)[6] = <<"Deneb", "_", "capella", "_", "reorg">>
    /\ LastSegment = <<"initial", "_", "state", ".", "ssz", "_", "snappy">>
    /\ parsed.fork = <<"altair">>

\* the known protocol-version names that occur in the lower-cased path and differ from
\* the fork of the primary attempt
KnownNamesInPath ==
    { KnownForkOrder[i] : i \in { j \in 1..9 :
          /\ Contains(Lower(PathStr(input_path)), KnownForkOrder[j])
          /\ KnownForkOrder[j] # parsed.fork } }

\* C13 (as claimed): when the primary decode of a light-client sync fixture fails and every
\* candidate fails, the candidates that were retried are exactly the known
\* protocol-version names that occur in the path and differ from the attempted fork.
C13_EveryKnownNameRetried ==
    (pc = "raised" /\ InSyncCategory /\ raised.kind = "DecodeError") =>
        { tried[i] : i \in 1..Len(tried) } = KnownNamesInPath

\* the filename is blocks_<n>.ssz_snappy
IsBlocksFile(n) ==
    LastSegment = <<"blocks", "_">> \o DigitsOf(n) \o <<".", "ssz", "_", "snappy">>

\* meta.yaml is a mapping that gives post_fork as a string and fork_block as a number
MetaGivesBoth ==
    /\ meta_yaml.read
    /\ meta_yaml.exists
    /\ meta_yaml.doc = "map"
    /\ meta_yaml.post_fork.t = "str"
    /\ meta_yaml.fork_block.t = "int"

\* C14: for blocks_<i>.ssz_snappy of a transition fixture whose meta.yaml gives post_fork
\* and fork_block, the effective fork is the predecessor of post_fork (when the table has
\* one) if i <= fork_block and post_fork itself if i > fork_block, whatever the directory
\* fork; fork names compare in lower case.
C14_BlockIndexDecides ==
    \A n \in 0..MaxBlockIndex :
        (/\ pc # "start"
         /\ WellFormed(input_path)
         /\ TestTypeSegment = <<"transition">>
         /\ IsBlocksFile(n)
         /\ MetaGivesBoth)
        => /\ parsed.exc = "none"
           /\ IF n <= meta_yaml.fork_block.i
              THEN HasPredecessor(Lower(meta_yaml.post_fork.s))
                     => PredecessorIs(Lower(meta_yaml.post_fork.s), parsed.fork)
              ELSE parsed.fork = Lower(meta_yaml.post_fork.s)

\* C14 witness: blocks_0 at fork_block 0 with post_fork bellatrix under capella resolved
\* to altair
C14_Witness ==
    /\ Returned
    /\ TestTypeSegment = <<"transition">>
    /\ DirForkSegment = <<"capella">>
    /\ IsBlocksFile(0)
    /\ MetaGivesBoth
    /\ meta_yaml.fork_block.i = 0
    /\ meta_yaml.post_fork.s = <<"bellatrix">>
    /\ parsed.fork = <<"altair">>

\* config.yaml is a mapping whose only activation-epoch key is that of v2, with epoch e
OnlyKey(v2, e) ==
    /\ config_yaml.read
    /\ config_yaml.exists
    /\ config_yaml.doc = "map"
    /\ config_yaml.preset_base.t \in {"str", "missing"}
    /\ config_yaml.epochs = { << <<UpperAtom(v2[1]), "_", "FORK", "_", "EPOCH">>, IntVal(e) >> }

\* slots per epoch as claimed: from config.yaml's PRESET_BASE when it gives one, and by
\* the preset segment of the path when it does not
SlotsPerEpochByPreset ==
    IF config_yaml.preset_base.t = "str"
    THEN (IF Lower(config_yaml.preset_base.s) = <<"minimal">> THEN 8 ELSE 32)
    ELSE (IF AfterMarker(input_path)[1] = <<"minimal">> THEN 8 ELSE 32)

\* C15 (as claimed): the slot becomes an epoch by integer division by slots-per-epoch,
\* which defaults by the preset of the fixture when config.yaml gives no PRESET_BASE: with
\* one activation-epoch key, of a version V2 not older than the directory fork, the
\* effective fork is V2 exactly when slot div slots-per-epoch has reached V2's epoch.
C15_DefaultsByPreset ==
    \A s \in Slots : \A e \in 0..MaxEpoch : \A i \in 1..9 :
        (/\ LightClientWithSlot(s)
         /\ OnlyKey(KnownForkOrder[i], e)
         /\ i >= Position(DirForkSegment))
        => /\ parsed.exc = "none"
           /\ parsed.fork = IF s \div SlotsPerEpochByPreset >= e
                            THEN KnownForkOrder[i]
                            ELSE DirForkSegment

\* the test-case name: the sixth segment after the marker, empty when the path is shorter
TestCaseName ==
    IF Len(AfterMarker(input_path)) >= 6 THEN AfterMarker(input_path)[6] ELSE <<>>

\* the positions, in the order of known forks, of the names embedded in the test-case name
EmbeddedPositions ==
    { i \in 1..9 : Contains(Lower(TestCaseName), KnownForkOrder[i]) }

NewestEmbedded ==
    KnownForkOrder[CHOOSE i \in EmbeddedPositions : \A j \in EmbeddedPositions : j <= i]

\* filenames without a slot number, other than the initial snapshot
NoSlotFile ==
    LastSegment \in { <<"bootstrap", ".", "ssz", "_", "snappy">>,
                      <<"update", "_", "0xab", ".", "ssz", "_", "snappy">> }

SuiteSegment == AfterMarker(input_path)[4]

\* C16: for a light-client fixture whose filename has no slot number and is not the initial
\* snapshot, the effective fork is the newest known fork name embedded in the test-case
\* name when the suite is not 'sync' and a name is embedded, and the directory fork when
\* the suite is 'sync'; with a slot number in the filename the embedded names are not
\* used (without config.yaml the effective fork is the directory fork).
C16_NewestEmbeddedName ==
    (pc # "start" /\ WellFormed(input_path) /\ TestTypeSegment = <<"light", "_", "client">>) =>
        /\ (NoSlotFile /\ SuiteSegment # <<"sync">> /\ EmbeddedPositions # {}) =>
              (parsed.exc = "none" /\ parsed.fork = NewestEmbedded)
        /\ (NoSlotFile /\ SuiteSegment = <<"sync">>) =>
              (parsed.exc = "none" /\ parsed.fork = DirForkSegment)
        /\ \A s \in Slots :
              (EncodesSlot(s) /\ config_yaml.read /\ ~config_yaml.exists) =>
                  (parsed.exc = "none" /\ parsed.fork = DirForkSegment)

\* C16 witness: bootstrap.ssz_snappy of the data_collection test case Deneb_capella_reorg
\* under altair resolved to deneb
C16_Witness ==
    /\ Returned
    /\ TestTypeSegment = <<"light", "_", "client">>
    /\ SuiteSegment = <<"data", "_", "collection">>
    /\ DirForkSegment = <<"altair">>
    /\ TestCaseName = <<"Deneb", "_", "capella", "_", "reorg">>
    /\ LastSegment = <<"bootstrap", ".", "ssz", "_", "snappy">>
    /\ parsed.fork = <<"deneb">>

\* the binary fixtures of the scanned presets that lack a companion
FixturesMissing ==
    { p \in tree :
        /\ p[1] \in { <<"minimal">>, <<"mainnet">> }
        /\ EndsWith(p[Len(p)], <<".", "ssz", "_", "snappy">>)
        /\ (SubSeq(p, 1, Len(p) - 1) \o <<p[Len(p)] \o <<".", "yaml">> >>) \notin tree }

FixturesWithCompanion ==
    { p \in tree :
        /\ p[1] \in { <<"minimal">>, <<"mainnet">> }
        /\ EndsWith(p[Len(p)], <<".", "ssz", "_", "snappy">>)
        /\ (SubSeq(p, 1, Len(p) - 1) \o <<p[Len(p)] \o <<".", "yaml">> >>) \in tree }

RECURSIVE SumCounts(_)
SumCounts(d) == IF d = <<>> THEN 0 ELSE Head(d)[2] + SumCounts(Tail(d))

\* C11 (as claimed): when check_missing_yamls returns, the missing count is the number of
\* fixtures without a companion, the missing-path list holds exactly their relative paths,
\* once each, the per-category counts sum to the missing count with every fixture counted
\* under its four-segment key, and total = with companion + missing.
C11_AllThreePlacesAgree ==
    apc = "returned" =>
        /\ missing_count = Cardinality(FixturesMissing)
        /\ Len(missing_files) = Cardinality(FixturesMissing)
        /\ { missing_files[i] : i \in 1..Len(missing_files) }
              = { PathStr(p) : p \in FixturesMissing }
        /\ SumCounts(missing_by_test_type) = missing_count
        /\ \A i \in 1..Len(missing_by_test_type) :
              missing_by_test_type[i][2] =
                  Cardinality({ p \in FixturesMissing :
                                  /\ Len(p) >= 4
                                  /\ PathStr(SubSeq(p, 1, 4)) = missing_by_test_type[i][1] })
        /\ total_yaml = Cardinality(FixturesWithCompanion)
        /\ total_ssz = total_yaml + missing_count

\* C12 (as claimed): two invocations on the same tree print the same report, whatever the
\* orders in which they visit directories and files.
C12_ReportIndependentOfOrder ==
    Len(reports) >= 2 => reports[1] = reports[2]

====
